---- MODULE Spec2Model ----
(***************************************************************************)
(* Model of src/download.rs of ffmpeg-sidecar: the platform resolver       *)
(* (ffmpeg_download_url), the manifest parser (parse_macos_version), the   *)
(* archive installer (unpack_ffmpeg) and the orchestrator (auto_download). *)
(*                                                                         *)
(* Text (URLs, paths, manifest bodies) is a sequence of one-character      *)
(* strings, so that splitting, trimming and extension lookup are computed  *)
(* as the Rust standard library computes them.                             *)
(***************************************************************************)
EXTENDS Naturals, Sequences, FiniteSets

(***************************************************************************)
(* Bounds of the model.                                                    *)
(***************************************************************************)
\* Number of top-level calls (unpack_ffmpeg or auto_download) in a behaviour.
MaxRuns ==
    2

\* Number of tiles an input text of parse_macos_version is built from.
MaxTiles ==
    4

(***************************************************************************)
(* Option<T> and small helpers.                                            *)
(***************************************************************************)
None ==
    [some |-> FALSE, val |-> <<>>]

Some(x) ==
    [some |-> TRUE, val |-> x]

\* Iterator::nth on the pieces of a split: the n-th piece, counted from 0.
Nth(pieces, n) ==
    IF n + 1 <= Len(pieces) THEN Some(pieces[n + 1]) ELSE None

\* Index of the first occurrence of pat in s, 0 when there is none.
Find(s, pat) ==
    LET hits == {i \in 1..(Len(s) + 1) :
                    /\ i + Len(pat) - 1 <= Len(s)
                    /\ SubSeq(s, i, i + Len(pat) - 1) = pat}
    IN  IF hits = {} THEN 0 ELSE CHOOSE i \in hits : \A j \in hits : i <= j

\* Index of the last occurrence of the character c in s, 0 when there is none.
LastIndexOf(s, c) ==
    LET hits == {i \in 1..Len(s) : s[i] = c}
    IN  IF hits = {} THEN 0 ELSE CHOOSE i \in hits : \A j \in hits : j <= i

\* str::split(pat) for a non-empty pattern: the pieces between the leftmost
\* non-overlapping occurrences of pat, in order; a text without pat is one piece.
RECURSIVE Split(_, _)
Split(s, pat) ==
    LET i == Find(s, pat)
    IN  IF i = 0
        THEN <<s>>
        ELSE <<SubSeq(s, 1, i - 1)>> \o Split(SubSeq(s, i + Len(pat), Len(s)), pat)

Whitespace ==
    {" ", "\t", "\n", "\r"}

RECURSIVE TrimStart(_)
TrimStart(s) ==
    IF Len(s) > 0 /\ s[1] \in Whitespace THEN TrimStart(Tail(s)) ELSE s

RECURSIVE TrimEnd(_)
TrimEnd(s) ==
    IF Len(s) > 0 /\ s[Len(s)] \in Whitespace
    THEN TrimEnd(SubSeq(s, 1, Len(s) - 1))
    ELSE s

\* str::trim
Trim(s) ==
    TrimEnd(TrimStart(s))

(***************************************************************************)
(* Manifest parser.                                                        *)
(***************************************************************************)
VersionKey ==
    <<"\"","v","e","r","s","i","o","n","\"",":">>

Quote ==
    <<"\"">>

\* parse_macos_version taking the piece before the key (nth(0)) instead.
parse_macos_version_nth0(version) ==
    LET after == Nth(Split(version, VersionKey), 0)
    IN  IF ~after.some THEN None ELSE Nth(Split(Trim(after.val), Quote), 1)

parse_macos_version(version) ==
    LET after == Nth(Split(version, VersionKey), 1)
    IN  IF ~after.some THEN None ELSE Nth(Split(Trim(after.val), Quote), 1)

(***************************************************************************)
(* Paths: Path::file_name and Path::extension.                             *)
(***************************************************************************)
\* Trailing separators and trailing current-directory components are not
\* components of a path.
RECURSIVE StripTrailing(_)
StripTrailing(p) ==
    IF Len(p) > 1 /\ p[Len(p)] = "/"
    THEN StripTrailing(SubSeq(p, 1, Len(p) - 1))
    ELSE IF Len(p) > 2 /\ SubSeq(p, Len(p) - 1, Len(p)) = <<"/", ".">>
    THEN StripTrailing(SubSeq(p, 1, Len(p) - 2))
    ELSE p

\* Path::file_name: the last component, nothing when the path ends in "..",
\* or is the root or the current directory.
file_name(p) ==
    LET q    == StripTrailing(p)
        last == SubSeq(q, LastIndexOf(q, "/") + 1, Len(q))
    IN  IF last = <<>> \/ last = <<".", ".">> \/ last = <<".">>
        THEN None
        ELSE Some(last)

\* Path::extension: the part of the file name after its last dot, nothing when
\* the file name has no dot or only a leading one.
extension(p) ==
    LET f == file_name(p)
    IN  IF ~f.some
        THEN None
        ELSE LET dot == LastIndexOf(f.val, ".")
             IN  IF dot <= 1
                 THEN None
                 ELSE Some(SubSeq(f.val, dot + 1, Len(f.val)))

\* Path::join of a directory and a relative file name.
join(dir, name) ==
    IF Len(dir) > 0 /\ dir[Len(dir)] = "/" THEN dir \o name ELSE dir \o <<"/">> \o name

(***************************************************************************)
(* Platform resolver.                                                      *)
(***************************************************************************)
WindowsUrl ==
    <<"h","t","t","p","s",":","/","/","c","a","p","-","f","f","m","p","e",
      "g",".","s","3",".","a","m","a","z","o","n","a","w","s",".","c","o",
      "m","/","f","f","m","p","e","g","-","7",".","0",".","1","-","e","s",
      "s","e","n","t","i","a","l","s","_","b","u","i","l","d",".","z","i",
      "p">>

LinuxUrl ==
    <<"h","t","t","p","s",":","/","/","c","a","p","-","f","f","m","p","e",
      "g",".","s","3",".","a","m","a","z","o","n","a","w","s",".","c","o",
      "m","/","f","f","m","p","e","g","-","r","e","l","e","a","s","e","-",
      "a","m","d","6","4","-","s","t","a","t","i","c",".","t","a","r",".",
      "x","z">>

MacosIntelUrl ==
    <<"h","t","t","p","s",":","/","/","c","a","p","-","f","f","m","p","e",
      "g",".","s","3",".","a","m","a","z","o","n","a","w","s",".","c","o",
      "m","/","f","f","m","p","e","g","-","7",".","0",".","1",".","z","i",
      "p">>

MacosArmUrl ==
    <<"h","t","t","p","s",":","/","/","c","a","p","-","f","f","m","p","e",
      "g",".","s","3",".","a","m","a","z","o","n","a","w","s",".","c","o",
      "m","/","f","f","m","p","e","g","a","r","m",".","z","i","p">>

\* The target_os and target_arch values a build is made for.
TargetOs ==
    {"windows", "linux", "macos", "freebsd"}

TargetArch ==
    {"x86_64", "aarch64", "x86"}

Ok(url) ==
    [ok |-> TRUE, url |-> url, err |-> "none"]

Err(kind) ==
    [ok |-> FALSE, url |-> <<>>, err |-> kind]

\* ffmpeg_download_url without the architecture test of the macOS ARM branch:
\* every other macOS build gets the ARM archive.
ffmpeg_download_url_anymac(target_os, target_arch) ==
    IF target_os = "windows" /\ target_arch = "x86_64" THEN Ok(WindowsUrl)
    ELSE IF target_os = "linux" /\ target_arch = "x86_64" THEN Ok(LinuxUrl)
    ELSE IF target_os = "macos" /\ target_arch = "x86_64" THEN Ok(MacosIntelUrl)
    ELSE IF target_os = "macos" THEN Ok(MacosArmUrl)
    ELSE Err("UnsupportedPlatform")

ffmpeg_download_url(target_os, target_arch) ==
    IF target_os = "windows" /\ target_arch = "x86_64" THEN Ok(WindowsUrl)
    ELSE IF target_os = "linux" /\ target_arch = "x86_64" THEN Ok(LinuxUrl)
    ELSE IF target_os = "macos" /\ target_arch = "x86_64" THEN Ok(MacosIntelUrl)
    ELSE IF target_os = "macos" /\ target_arch = "aarch64" THEN Ok(MacosArmUrl)
    ELSE Err("UnsupportedPlatform")

(***************************************************************************)
(* The file system the installer works on, and the inputs of a call.       *)
(***************************************************************************)
\* pub const UNPACK_DIRNAME
UNPACK_DIRNAME ==
    "ffmpeg_release_temp"

\* Names of the entries an archive can hold at its root.
FileNames ==
    {"ffmpeg", "ffprobe", "ffmpeg.exe", "ffprobe.exe", "README"}

\* The archives a call can be given: the set of entries at the archive's root.
ArchiveContents ==
    { {"ffmpeg", "ffprobe", "README"},
      {"ffmpeg.exe", "ffprobe.exe", "README"},
      {"ffmpeg"}, {"ffprobe"}, {"ffmpeg.exe"}, {"ffprobe.exe"}, {"README"} }

\* The archive paths a caller passes to unpack_ffmpeg directly.
ArchivePaths ==
    { <<"/","d","/","a",".","z","i","p">>,
      <<"/","d","/","a",".","t","a","r">>,
      <<"/","d","/","a",".","t","a","r",".","x","z">>,
      <<"/","d","/","a",".","t","a","r",".","g","z">>,
      <<"/","d","/","a",".","t","g","z">>,
      <<"/","d","/","a",".","r","a","r">>,
      <<"/","d","/","a",".","Z","I","P">>,
      <<"/","d","/",".","z","i","p">>,
      <<"/","d",".","z","i","p","/","a">> }

\* The directory sidecar_dir() resolves to.
SidecarPath ==
    <<"/","d">>

\* A directory with no entry: each name maps to 0. An entry maps to the number
\* of the run whose archive it was extracted from.
EmptyDir ==
    [n \in FileNames |-> 0]

VARIABLES
    target_os,       \* cfg!(target_os)
    target_arch,     \* cfg!(target_arch)
    pc,              \* position of the single thread of control
    caller,          \* who called unpack_ffmpeg: "direct" or "auto"
    runs,            \* number of top-level calls made so far
    from_archive,    \* unpack_ffmpeg's from_archive path
    archiveExists,   \* whether the file at from_archive exists
    archiveContents, \* the entries at the root of that archive
    tempExists,      \* whether binary_folder/UNPACK_DIRNAME exists
    temp,            \* entries of the staging directory
    bins,            \* entries of binary_folder
    ext,             \* unpack_ffmpeg's extension local
    unpack_command,  \* the command selected by extension
    status,          \* outcome of running the extraction command
    unpackResult,    \* what unpack_ffmpeg returned
    download_url,    \* auto_download's download_url local
    probes,          \* results of the calls of ffmpeg_is_installed in this run
    autoResult,      \* what auto_download returned
    spawned,         \* child processes spawned in this run
    moved,           \* binaries renamed into binary_folder in this run
    removals,        \* outcome of the two cleanup steps of this run
    atCall,          \* the file system when the run was called
    atExtract,       \* the staging entries when the extraction command started
    text,            \* input of parse_macos_version
    parsed,          \* its result
    ppc              \* position of the parser run

fsVars ==
    <<tempExists, temp, bins, archiveExists, archiveContents>>

unpackVars ==
    <<from_archive, ext, unpack_command, status, unpackResult, moved, removals,
      atExtract>>

autoVars ==
    <<download_url, probes, autoResult>>

parseVars ==
    <<text, parsed, ppc>>

platformVars ==
    <<target_os, target_arch>>

vars ==
    <<platformVars, pc, caller, runs, fsVars, unpackVars, autoVars, spawned,
      atCall, parseVars>>

NoRemovals ==
    [temp |-> "none", archive |-> "none"]

Snapshot ==
    [tempExists |-> tempExists, temp |-> temp, bins |-> bins,
     archiveExists |-> archiveExists]

Init ==
    /\ target_os \in TargetOs
    /\ target_arch \in TargetArch
    /\ pc = "idle"
    /\ caller = "none"
    /\ runs = 0
    /\ from_archive = <<>>
    /\ archiveExists = FALSE
    /\ archiveContents = {}
    /\ tempExists = FALSE
    /\ temp = EmptyDir
    /\ bins = EmptyDir
    /\ ext = <<>>
    /\ unpack_command = "none"
    /\ status = "none"
    /\ unpackResult = "none"
    /\ download_url = None
    /\ probes = <<>>
    /\ autoResult = "none"
    /\ spawned = {}
    /\ moved = {}
    /\ removals = NoRemovals
    /\ atCall = [tempExists |-> FALSE, temp |-> EmptyDir, bins |-> EmptyDir,
                 archiveExists |-> FALSE]
    /\ atExtract = EmptyDir
    /\ text = <<>>
    /\ parsed = None
    /\ ppc = "off"

(***************************************************************************)
(* unpack_ffmpeg, step by step.                                            *)
(***************************************************************************)
ZipExt ==
    <<"z","i","p">>

TarExts ==
    { <<"t","a","r">>, <<"x","z">>, <<"g","z">> }

\* The match on extension with every extension sent to tar.
unpack_command_for_any(extension_) ==
    IF extension_ = ZipExt THEN "unzip" ELSE "tar"

\* The match on extension: the command to run, "none" for the bail! arm.
unpack_command_for(extension_) ==
    IF extension_ = ZipExt THEN "unzip"
    ELSE IF extension_ \in TarExts THEN "tar"
    ELSE "none"

\* The binary names, probe first.
BinaryNamesSwapped(os) ==
    IF os = "windows" THEN <<"ffprobe.exe", "ffmpeg.exe">> ELSE <<"ffprobe", "ffmpeg">>

\* (ffmpeg_bin, ffprobe_bin)
BinaryNames(os) ==
    IF os = "windows" THEN <<"ffmpeg.exe", "ffprobe.exe">> ELSE <<"ffmpeg", "ffprobe">>

\* create_dir_all emptying a directory that exists.
StagingAfterCreateCleared(entries) ==
    EmptyDir

\* create_dir_all: the entries of the staging directory afterwards. A directory
\* that exists is left as it is.
StagingAfterCreate(entries) ==
    entries

\* unzip -o / tar -xf into the staging directory: the extracted entries are
\* written over entries of the same name, every other entry stays.
Extracted(entries, names, run) ==
    [n \in FileNames |-> IF n \in names THEN run ELSE entries[n]]

\* The cleanup of the staging directory never attempted.
TempRemovalAttemptedNever(exists) ==
    FALSE

\* temp_folder.exists() && temp_folder.is_dir()
TempRemovalAttempted(exists) ==
    exists

\* The cleanup of the archive never attempted.
ArchiveRemovalAttemptedNever(exists) ==
    FALSE

\* from_archive.exists()
ArchiveRemovalAttempted(exists) ==
    exists

\* A failed removal that is logged and not propagated.
RemovalErrorIgnored(removed) ==
    "none"

\* The ? on remove_dir_all and on remove_file: the error a failed removal
\* returns from unpack_ffmpeg, "none" when the removal succeeded.
RemovalError(removed) ==
    IF removed THEN "none" ELSE "IOFailure"

\* State of a run of unpack_ffmpeg at its call.
EnterUnpack(path, who) ==
    /\ pc' = "u_create"
    /\ caller' = who
    /\ from_archive' = path
    /\ ext' = <<>>
    /\ unpack_command' = "none"
    /\ status' = "none"
    /\ unpackResult' = "none"
    /\ moved' = {}
    /\ removals' = NoRemovals
    /\ atExtract' = EmptyDir

\* unpack_ffmpeg returns err.
Bail(err) ==
    /\ unpackResult' = err
    /\ pc' = "u_ret"

\* A caller invokes unpack_ffmpeg on an archive path of its own; the file may
\* be missing.
UnpackCall ==
    /\ pc = "idle"
    /\ runs < MaxRuns
    /\ runs' = runs + 1
    /\ \E path \in ArchivePaths, contents \in ArchiveContents \cup {{}} :
          /\ archiveExists' = (contents # {})
          /\ archiveContents' = contents
          /\ EnterUnpack(path, "direct")
          /\ atCall' = [Snapshot EXCEPT !.archiveExists = (contents # {})]
    /\ spawned' = {}
    /\ download_url' = None
    /\ probes' = <<>>
    /\ autoResult' = "none"
    /\ UNCHANGED <<platformVars, tempExists, temp, bins, parseVars>>

\* create_dir_all(&temp_folder)?
CreateDir ==
    /\ pc = "u_create"
    /\ \/ /\ tempExists' = TRUE
          /\ temp' = StagingAfterCreate(temp)
          /\ pc' = "u_dispatch"
          /\ UNCHANGED unpackResult
       \/ /\ Bail("IOFailure")
          /\ UNCHANGED <<tempExists, temp>>
    /\ UNCHANGED <<platformVars, caller, runs, from_archive, archiveExists,
                   archiveContents, bins, ext, unpack_command, status, moved,
                   removals, atExtract, autoVars, spawned, atCall, parseVars>>

\* The extension of from_archive and the match that selects the command.
Dispatch ==
    /\ pc = "u_dispatch"
    /\ LET e == extension(from_archive)
           x == IF e.some THEN e.val ELSE <<>>
       IN  /\ ext' = x
           /\ unpack_command' = unpack_command_for(x)
           /\ IF unpack_command_for(x) = "none"
              THEN Bail("UnsupportedArchiveFormat")
              ELSE pc' = "u_readdir" /\ UNCHANGED unpackResult
    /\ UNCHANGED <<platformVars, caller, runs, from_archive, fsVars, status,
                   moved, removals, atExtract, autoVars, spawned, atCall,
                   parseVars>>

\* read_dir(&temp_folder)? and the listing that is logged.
ReadDir ==
    /\ pc = "u_readdir"
    /\ \/ pc' = "u_extract" /\ UNCHANGED unpackResult
       \/ Bail("IOFailure")
    /\ UNCHANGED <<platformVars, caller, runs, from_archive, fsVars, ext,
                   unpack_command, status, moved, removals, atExtract,
                   autoVars, spawned, atCall, parseVars>>

\* unpack_command.args(unpack_args).status()? and the test of the status.
Extract ==
    /\ pc = "u_extract"
    /\ atExtract' = temp
    /\ \/ \* the command cannot be spawned
          /\ Bail("IOFailure")
          /\ UNCHANGED <<temp, status, spawned>>
       \/ \* the command exits with a non-zero status, having written
          \* some of the entries
          /\ \E names \in SUBSET archiveContents :
                temp' = Extracted(temp, names, runs)
          /\ status' = "nonzero"
          /\ spawned' = spawned \cup {unpack_command}
          /\ Bail("ExtractionFailed")
       \/ \* the command exits with status zero
          /\ archiveExists
          /\ temp' = Extracted(temp, archiveContents, runs)
          /\ status' = "zero"
          /\ spawned' = spawned \cup {unpack_command}
          /\ pc' = "u_move1"
          /\ UNCHANGED unpackResult
    /\ UNCHANGED <<platformVars, caller, runs, from_archive, archiveExists,
                   archiveContents, tempExists, bins, ext, unpack_command,
                   moved, removals, autoVars, atCall, parseVars>>

\* move_bin(path)? for the binary named name; next is the step that follows.
move_bin(name, next) ==
    /\ IF temp[name] # 0
       THEN \/ \* rename(path, &file_name) succeeds
               /\ bins' = [bins EXCEPT ![name] = temp[name]]
               /\ temp' = [temp EXCEPT ![name] = 0]
               /\ moved' = moved \cup {name}
               /\ pc' = next
               /\ UNCHANGED unpackResult
            \/ \* rename fails
               /\ Bail("IOFailure")
               /\ UNCHANGED <<bins, temp, moved>>
       ELSE /\ Bail("BinaryNotFound")
            /\ UNCHANGED <<bins, temp, moved>>
    /\ UNCHANGED <<platformVars, caller, runs, from_archive, archiveExists,
                   archiveContents, tempExists, ext, unpack_command, status,
                   removals, atExtract, autoVars, spawned, atCall, parseVars>>

\* move_bin(&ffmpeg_path)?
MoveFirst ==
    /\ pc = "u_move1"
    /\ move_bin(BinaryNames(target_os)[1], "u_move2")

\* move_bin(&ffprobe_path)?
MoveSecond ==
    /\ pc = "u_move2"
    /\ move_bin(BinaryNames(target_os)[2], "u_rmtemp")

\* remove_dir_all(&temp_folder)? when the folder exists, a log line otherwise.
RemoveTemp ==
    /\ pc = "u_rmtemp"
    /\ IF TempRemovalAttempted(tempExists)
       THEN \/ /\ tempExists' = FALSE
               /\ temp' = EmptyDir
               /\ removals' = [removals EXCEPT !.temp = "removed"]
               /\ pc' = "u_rmarchive"
               /\ UNCHANGED unpackResult
            \/ \* the removal fails, some entries may be gone
               /\ \E kept \in SUBSET {n \in FileNames : temp[n] # 0} :
                     temp' = [n \in FileNames |-> IF n \in kept THEN temp[n] ELSE 0]
               /\ removals' = [removals EXCEPT !.temp = "failed"]
               /\ IF RemovalError(FALSE) = "none"
                  THEN pc' = "u_rmarchive" /\ UNCHANGED unpackResult
                  ELSE Bail(RemovalError(FALSE))
               /\ UNCHANGED tempExists
       ELSE /\ removals' = [removals EXCEPT !.temp = "skipped"]
            /\ pc' = "u_rmarchive"
            /\ UNCHANGED <<tempExists, temp, unpackResult>>
    /\ UNCHANGED <<platformVars, caller, runs, from_archive, archiveExists,
                   archiveContents, bins, ext, unpack_command, status, moved,
                   atExtract, autoVars, spawned, atCall, parseVars>>

\* remove_file(from_archive)? when the archive exists, a log line otherwise;
\* then Ok(()).
RemoveArchive ==
    /\ pc = "u_rmarchive"
    /\ IF ArchiveRemovalAttempted(archiveExists)
       THEN \/ /\ archiveExists' = FALSE
               /\ removals' = [removals EXCEPT !.archive = "removed"]
               /\ Bail("Ok")
            \/ /\ removals' = [removals EXCEPT !.archive = "failed"]
               /\ IF RemovalError(FALSE) = "none"
                  THEN Bail("Ok")
                  ELSE Bail(RemovalError(FALSE))
               /\ UNCHANGED archiveExists
       ELSE /\ removals' = [removals EXCEPT !.archive = "skipped"]
            /\ Bail("Ok")
            /\ UNCHANGED archiveExists
    /\ UNCHANGED <<platformVars, caller, runs, from_archive, archiveContents,
                   tempExists, temp, bins, ext, unpack_command, status, moved,
                   atExtract, autoVars, spawned, atCall, parseVars>>

\* unpack_ffmpeg has returned to a direct caller.
UnpackReturn ==
    /\ pc = "u_ret"
    /\ caller = "direct"
    /\ pc' = "idle"
    /\ UNCHANGED <<platformVars, caller, runs, fsVars, unpackVars, autoVars,
                   spawned, atCall, parseVars>>

(***************************************************************************)
(* auto_download, step by step. ffmpeg_is_installed and sidecar_dir are     *)
(* collaborators of other modules: each call returns any of its outcomes.  *)
(***************************************************************************)
\* The early return dropped: the run goes on to the download whatever the
\* first probe said.
AfterFirstProbeAlways(installed) ==
    "a_url"

\* if ffmpeg_is_installed() { return Ok(()); }
AfterFirstProbe(installed) ==
    IF installed THEN "a_ret" ELSE "a_url"

\* The verification dropped: success whatever the second probe said.
AfterSecondProbeAlways(installed) ==
    "Ok"

\* if !ffmpeg_is_installed() { bail!(...) } Ok(())
AfterSecondProbe(installed) ==
    IF installed THEN "Ok" ELSE "InstallVerificationFailed"

\* auto_download returns err.
AutoBail(err) ==
    /\ autoResult' = err
    /\ pc' = "a_ret"

AutoCall ==
    /\ pc = "idle"
    /\ runs < MaxRuns
    /\ runs' = runs + 1
    /\ pc' = "a_probe1"
    /\ caller' = "auto"
    /\ from_archive' = <<>>
    /\ archiveExists' = FALSE
    /\ archiveContents' = {}
    /\ ext' = <<>>
    /\ unpack_command' = "none"
    /\ status' = "none"
    /\ unpackResult' = "none"
    /\ moved' = {}
    /\ removals' = NoRemovals
    /\ atExtract' = EmptyDir
    /\ download_url' = None
    /\ probes' = <<>>
    /\ autoResult' = "none"
    /\ spawned' = {}
    /\ atCall' = [Snapshot EXCEPT !.archiveExists = FALSE]
    /\ UNCHANGED <<platformVars, tempExists, temp, bins, parseVars>>

\* The first call of ffmpeg_is_installed and the early return.
FirstProbe ==
    /\ pc = "a_probe1"
    /\ \E installed \in BOOLEAN :
          /\ probes' = Append(probes, installed)
          /\ pc' = AfterFirstProbe(installed)
          /\ autoResult' = IF AfterFirstProbe(installed) = "a_ret" THEN "Ok" ELSE "none"
    /\ UNCHANGED <<platformVars, caller, runs, fsVars, unpackVars, download_url,
                   spawned, atCall, parseVars>>

\* let download_url = ffmpeg_download_url()?
ResolveUrl ==
    /\ pc = "a_url"
    /\ LET r == ffmpeg_download_url(target_os, target_arch)
       IN  IF r.ok
           THEN /\ download_url' = Some(r.url)
                /\ pc' = "a_dir"
                /\ UNCHANGED autoResult
           ELSE /\ AutoBail(r.err)
                /\ UNCHANGED download_url
    /\ UNCHANGED <<platformVars, caller, runs, fsVars, unpackVars, probes,
                   spawned, atCall, parseVars>>

\* let destination = sidecar_dir()?
ResolveDir ==
    /\ pc = "a_dir"
    /\ \/ pc' = "a_download" /\ UNCHANGED autoResult
       \/ AutoBail("IOFailure")
    /\ UNCHANGED <<platformVars, caller, runs, fsVars, unpackVars, download_url,
                   probes, spawned, atCall, parseVars>>

\* The path download_ffmpeg_package downloads url to, nothing when the URL has
\* no file name.
archive_path(url, download_dir) ==
    LET filename == file_name(url)
    IN  IF filename.some THEN Some(join(download_dir, filename.val)) ELSE None

\* download_ffmpeg_package(download_url, &destination)? followed by the call
\* unpack_ffmpeg(&archive_path, &destination).
Download ==
    /\ pc = "a_download"
    /\ LET path == archive_path(download_url.val, SidecarPath)
       IN  IF ~path.some
           THEN /\ AutoBail("IOFailure")
                /\ UNCHANGED <<caller, archiveExists, archiveContents, spawned,
                               unpackVars>>
           ELSE \/ \* curl cannot be spawned
                   /\ AutoBail("IOFailure")
                   /\ UNCHANGED <<caller, archiveExists, archiveContents,
                                  spawned, unpackVars>>
                \/ \* curl exits with a non-zero status
                   /\ AutoBail("DownloadFailed")
                   /\ spawned' = spawned \cup {"curl"}
                   /\ UNCHANGED <<caller, archiveExists, archiveContents,
                                  unpackVars>>
                \/ \* curl exits with status zero and has written the file
                   /\ \E contents \in ArchiveContents :
                         archiveContents' = contents
                   /\ archiveExists' = TRUE
                   /\ spawned' = spawned \cup {"curl"}
                   /\ EnterUnpack(path.val, "auto")
                   /\ UNCHANGED autoResult
    /\ UNCHANGED <<platformVars, runs, tempExists, temp, bins, download_url,
                   probes, atCall, parseVars>>

\* unpack_ffmpeg(...)? in auto_download: the error is returned, success goes on
\* to the second probe.
UnpackReturnAuto ==
    /\ pc = "u_ret"
    /\ caller = "auto"
    /\ IF unpackResult = "Ok"
       THEN pc' = "a_probe2" /\ UNCHANGED autoResult
       ELSE AutoBail(unpackResult)
    /\ UNCHANGED <<platformVars, caller, runs, fsVars, unpackVars, download_url,
                   probes, spawned, atCall, parseVars>>

\* The second call of ffmpeg_is_installed and the result of auto_download.
SecondProbe ==
    /\ pc = "a_probe2"
    /\ \E installed \in BOOLEAN :
          /\ probes' = Append(probes, installed)
          /\ AutoBail(AfterSecondProbe(installed))
    /\ UNCHANGED <<platformVars, caller, runs, fsVars, unpackVars, download_url,
                   spawned, atCall, parseVars>>

\* auto_download has returned.
AutoReturn ==
    /\ pc = "a_ret"
    /\ pc' = "idle"
    /\ UNCHANGED <<platformVars, caller, runs, fsVars, unpackVars, autoVars,
                   spawned, atCall, parseVars>>

Next ==
    \/ UnpackCall
    \/ CreateDir
    \/ Dispatch
    \/ ReadDir
    \/ Extract
    \/ MoveFirst
    \/ MoveSecond
    \/ RemoveTemp
    \/ RemoveArchive
    \/ UnpackReturn
    \/ AutoCall
    \/ FirstProbe
    \/ ResolveUrl
    \/ ResolveDir
    \/ Download
    \/ UnpackReturnAuto
    \/ SecondProbe
    \/ AutoReturn

Spec ==
    Init /\ [][Next]_vars

(***************************************************************************)
(* parse_macos_version applied to bounded input texts.                     *)
(***************************************************************************)
\* {"name":"x","version":"6.0"}
DocExample ==
    <<"{","\"","n","a","m","e","\"",":","\"","x","\"",",","\"","v","e","r",
      "s","i","o","n","\"",":","\"","6",".","0","\"","}">>

\* The pieces input texts are built from.
Tiles ==
    { VersionKey, Quote, <<" ">>, <<"6">>, <<":">> }

RECURSIVE Concat(_)
Concat(tiles) ==
    IF tiles = <<>> THEN <<>> ELSE Head(tiles) \o Concat(Tail(tiles))

Texts ==
    {DocExample} \cup
    UNION { {Concat(t) : t \in [1..k -> Tiles]} : k \in 0..MaxTiles }

InitParse ==
    /\ target_os = "macos"
    /\ target_arch = "x86_64"
    /\ pc = "off"
    /\ caller = "none"
    /\ runs = 0
    /\ from_archive = <<>>
    /\ archiveExists = FALSE
    /\ archiveContents = {}
    /\ tempExists = FALSE
    /\ temp = EmptyDir
    /\ bins = EmptyDir
    /\ ext = <<>>
    /\ unpack_command = "none"
    /\ status = "none"
    /\ unpackResult = "none"
    /\ download_url = None
    /\ probes = <<>>
    /\ autoResult = "none"
    /\ spawned = {}
    /\ moved = {}
    /\ removals = NoRemovals
    /\ atCall = [tempExists |-> FALSE, temp |-> EmptyDir, bins |-> EmptyDir,
                 archiveExists |-> FALSE]
    /\ atExtract = EmptyDir
    /\ text \in Texts
    /\ parsed = None
    /\ ppc = "called"

\* The call parse_macos_version(&text).
Parse ==
    /\ ppc = "called"
    /\ parsed' = parse_macos_version(text)
    /\ ppc' = "returned"
    /\ UNCHANGED <<platformVars, pc, caller, runs, fsVars, unpackVars, autoVars,
                   spawned, atCall, text>>

NextParse ==
    Parse

SpecParse ==
    InitParse /\ [][NextParse]_vars

(***************************************************************************)
(* Properties.                                                             *)
(***************************************************************************)
\* unpack_ffmpeg has returned in the current run.
UnpackReturned ==
    unpackResult # "none"

RecognizedExts ==
    {ZipExt} \cup TarExts

\* The primary tool and the probe tool the target operating system expects.
ffmpeg_bin ==
    IF target_os = "windows" THEN "ffmpeg.exe" ELSE "ffmpeg"

ffprobe_bin ==
    IF target_os = "windows" THEN "ffprobe.exe" ELSE "ffprobe"

\* The current run is a run of auto_download whose first probe said installed.
FirstProbeTrue ==
    caller = "auto" /\ Len(probes) >= 1 /\ probes[1]

\* C1: in auto_download, when the first call of the installed-binary probe
\* returns true the run returns success with the probe called exactly once, no
\* URL resolved, no process spawned (no curl, no unzip, no tar), the archive
\* installer not invoked and no file changed.
C1_ShortCircuit ==
    FirstProbeTrue =>
        /\ pc \in {"a_ret", "idle"}
        /\ autoResult = "Ok"
        /\ Len(probes) = 1
        /\ download_url = None
        /\ spawned = {}
        /\ unpackResult = "none" /\ from_archive = <<>>
        /\ Snapshot = atCall

C1_Witness ==
    pc = "a_ret" /\ probes = <<TRUE>> /\ autoResult = "Ok" /\ runs = 2
    /\ bins[ffmpeg_bin] # 0

\* C2: a run of unpack_ffmpeg that returns success, called with no staging
\* directory and an archive holding both expected binaries at its root, leaves
\* both binaries (those of this archive) in the target directory, no staging
\* directory, no archive file, and no other new entry in the target directory.
C2_SuccessfulInstall ==
    ( /\ unpackResult = "Ok"
      /\ ~atCall.tempExists
      /\ {ffmpeg_bin, ffprobe_bin} \subseteq archiveContents )
    =>
        /\ bins[ffmpeg_bin] = runs
        /\ bins[ffprobe_bin] = runs
        /\ ~tempExists /\ temp = EmptyDir
        /\ ~archiveExists
        /\ \A n \in FileNames \ {ffmpeg_bin, ffprobe_bin} : bins[n] = atCall.bins[n]

C2_Witness ==
    /\ pc = "u_ret" /\ unpackResult = "Ok" /\ ~atCall.tempExists
    /\ {ffmpeg_bin, ffprobe_bin} \subseteq archiveContents
    /\ bins[ffmpeg_bin] = runs /\ bins[ffprobe_bin] = runs

\* The entries of the staging directory once the extraction of this run has
\* exited with status zero.
Staged ==
    {n \in FileNames : atExtract[n] # 0 \/ n \in archiveContents}

\* C3 as stated: an archive that extracts successfully but lacks one of the
\* two expected binaries makes unpack_ffmpeg fail with BinaryNotFound, with no
\* binary moved into the target directory by the run.
C3_Original ==
    ( /\ UnpackReturned
      /\ status = "zero"
      /\ ~({ffmpeg_bin, ffprobe_bin} \subseteq archiveContents) )
    =>  unpackResult = "BinaryNotFound" /\ moved = {}

\* C3 amended: after a successful extraction, a staging directory without
\* ffmpeg makes unpack_ffmpeg fail with BinaryNotFound with nothing moved; one
\* with ffmpeg but without ffprobe makes it fail with BinaryNotFound after
\* ffmpeg has been moved into the target directory, where it stays (or with the
\* IO error of the rename of ffmpeg, nothing moved); ffprobe is never moved.
C3_PartialInstall ==
    (UnpackReturned /\ status = "zero") =>
        /\ ffmpeg_bin \notin Staged =>
              unpackResult = "BinaryNotFound" /\ moved = {}
        /\ (ffmpeg_bin \in Staged /\ ffprobe_bin \notin Staged) =>
              /\ unpackResult \in {"BinaryNotFound", "IOFailure"}
              /\ unpackResult = "BinaryNotFound" <=> moved = {ffmpeg_bin}
              /\ unpackResult = "IOFailure" <=> moved = {}
              /\ ffmpeg_bin \in moved =>
                    bins[ffmpeg_bin] # 0 /\ temp[ffmpeg_bin] = 0

C3_Witness ==
    /\ pc = "u_ret" /\ status = "zero" /\ unpackResult = "BinaryNotFound"
    /\ ffprobe_bin \notin Staged
    /\ moved = {ffmpeg_bin} /\ bins[ffmpeg_bin] = runs

\* C4 as stated: once both binaries have been moved, unpack_ffmpeg returns
\* success whatever the outcome of the two removals.
C4_Original ==
    (UnpackReturned /\ {ffmpeg_bin, ffprobe_bin} \subseteq moved) =>
        unpackResult = "Ok"

\* C4 amended: once both binaries have been moved, unpack_ffmpeg returns
\* success exactly when no attempted removal failed; a failed remove_dir_all
\* returns its IO error without the archive removal being attempted, and a
\* failed remove_file returns its IO error.
C4_CleanupPropagates ==
    (UnpackReturned /\ {ffmpeg_bin, ffprobe_bin} \subseteq moved) =>
        /\ unpackResult \in {"Ok", "IOFailure"}
        /\ unpackResult = "Ok" <=>
              /\ removals.temp \in {"removed", "skipped"}
              /\ removals.archive \in {"removed", "skipped"}
        /\ unpackResult = "IOFailure" <=>
              "failed" \in {removals.temp, removals.archive}
        /\ removals.temp = "failed" =>
              removals.archive = "none" /\ archiveExists /\ tempExists
        /\ removals.archive = "failed" =>
              removals.temp = "removed" /\ archiveExists

C4_Witness ==
    /\ pc = "u_ret" /\ {ffmpeg_bin, ffprobe_bin} \subseteq moved
    /\ removals.temp = "failed" /\ unpackResult = "IOFailure"

\* The extension of from_archive is none of zip, tar, xz, gz.
UnsupportedExtension ==
    LET e == extension(from_archive)
    IN  from_archive # <<>> /\ (~e.some \/ e.val \notin RecognizedExts)

\* C5 as stated: an archive path whose extension is none of zip, tar, xz, gz
\* makes unpack_ffmpeg fail with UnsupportedArchiveFormat, with no extraction
\* process spawned and no binary moved.
C5_Original ==
    (UnpackReturned /\ UnsupportedExtension) =>
        /\ unpackResult = "UnsupportedArchiveFormat"
        /\ spawned \cap {"unzip", "tar"} = {}
        /\ moved = {}

\* C5 amended: such a path makes unpack_ffmpeg fail with no extraction process
\* spawned and no binary moved: with the IO error of create_dir_all when the
\* creation of the staging directory fails, with UnsupportedArchiveFormat
\* otherwise (the staging directory is created before the extension is looked
\* at, and is left behind).
C5_UnsupportedFormat ==
    (UnpackReturned /\ UnsupportedExtension) =>
        /\ unpackResult \in {"UnsupportedArchiveFormat", "IOFailure"}
        /\ unpackResult = "UnsupportedArchiveFormat" => tempExists
        /\ unpackResult = "IOFailure" => tempExists = atCall.tempExists
        /\ temp = atCall.temp
        /\ spawned \cap {"unzip", "tar"} = {}
        /\ unpack_command = "none" /\ status = "none"
        /\ moved = {}
        /\ bins = atCall.bins

C5_Witness ==
    /\ pc = "u_ret" /\ UnsupportedExtension
    /\ unpackResult = "UnsupportedArchiveFormat"
    /\ tempExists /\ ~atCall.tempExists
    /\ extension(from_archive) = Some(<<"r","a","r">>)

\* C6: auto_download returns success only if the last probe of the run said
\* installed; the probe is called a second time exactly when the first said
\* not installed and unpack_ffmpeg returned success, and a second probe that
\* says not installed makes the run fail with InstallVerificationFailed; a run
\* that failed earlier (URL, directory, download, unpack) has probed once.
C6_Verification ==
    caller = "auto" =>
        /\ autoResult = "Ok" =>
              Len(probes) >= 1 /\ probes[Len(probes)]
        /\ Len(probes) <= 2
        /\ Len(probes) = 2 => ~probes[1] /\ unpackResult = "Ok"
        /\ (pc \in {"a_ret", "idle"} /\ unpackResult = "Ok") => Len(probes) = 2
        /\ (Len(probes) = 2 /\ ~probes[2]) =>
              autoResult = "InstallVerificationFailed"
        /\ autoResult \notin {"none", "Ok", "InstallVerificationFailed"} =>
              Len(probes) = 1 /\ unpackResult # "Ok"
        /\ autoResult = "InstallVerificationFailed" =>
              Len(probes) = 2 /\ ~probes[2]

C6_Witness ==
    /\ pc = "a_ret" /\ probes = <<FALSE, FALSE>>
    /\ unpackResult = "Ok" /\ autoResult = "InstallVerificationFailed"

SupportedPairs ==
    { <<"windows", "x86_64">>, <<"linux", "x86_64">>,
      <<"macos", "x86_64">>, <<"macos", "aarch64">> }

\* The current run of auto_download is past the call of ffmpeg_download_url.
UrlResolved ==
    /\ caller = "auto" /\ Len(probes) >= 1 /\ ~probes[1]
    /\ pc # "a_url"

\* C7: ffmpeg_download_url returns a URL exactly for windows/x86_64,
\* linux/x86_64, macos/x86_64 and macos/aarch64 and fails with
\* UnsupportedPlatform for every other pair; a returned URL is not empty and
\* its extension is one of zip, tar, xz, gz, so the archive path built from it
\* never makes the run fail with UnsupportedArchiveFormat.
C7_PlatformUrls ==
    UrlResolved =>
        IF <<target_os, target_arch>> \in SupportedPairs
        THEN /\ download_url.some
             /\ download_url.val # <<>>
             /\ extension(download_url.val).some
             /\ extension(download_url.val).val \in RecognizedExts
             /\ from_archive # <<>> =>
                   extension(from_archive) = extension(download_url.val)
             /\ autoResult # "UnsupportedPlatform"
             /\ unpackResult # "UnsupportedArchiveFormat"
             /\ autoResult # "UnsupportedArchiveFormat"
        ELSE /\ download_url = None
             /\ autoResult = "UnsupportedPlatform"
             /\ spawned = {}

C7_Witness ==
    /\ UrlResolved /\ target_os = "linux" /\ target_arch = "x86_64"
    /\ ext = <<"x","z">> /\ unpack_command = "tar" /\ status = "zero"

\* The text between the first two quote characters of s, nothing when s has
\* fewer than two.
BetweenQuotes(s) ==
    LET q1 == Find(s, Quote)
        r  == SubSeq(s, q1 + 1, Len(s))
        q2 == Find(r, Quote)
    IN  IF q1 = 0 \/ q2 = 0 THEN None ELSE Some(SubSeq(r, 1, q2 - 1))

\* C8 as stated: the result is the text between the next pair of quote
\* characters after the first occurrence of the key, and nothing when the key
\* is absent, when no quote follows it, or when an opening quote is not closed.
C8_Original ==
    ppc = "returned" =>
        LET k == Find(text, VersionKey)
        IN  parsed = IF k = 0
                     THEN None
                     ELSE BetweenQuotes(SubSeq(text, k + Len(VersionKey), Len(text)))

\* The text following the first occurrence of the key, up to the next
\* occurrence of the key or the end of the text, trimmed.
KeySegment(s) ==
    LET k  == Find(s, VersionKey)
        r  == SubSeq(s, k + Len(VersionKey), Len(s))
        k2 == Find(r, VersionKey)
    IN  Trim(IF k2 = 0 THEN r ELSE SubSeq(r, 1, k2 - 1))

\* C8 amended: parse_macos_version never raises; it returns nothing when the
\* key is absent or when the segment after its first occurrence (which ends at
\* the next occurrence of the key or at the end of the text) holds no quote;
\* otherwise it returns the text between the first two quotes of that segment,
\* and, when the opening quote is not closed, the rest of the trimmed segment
\* after the opening quote. The documented example yields 6.0.
C8_ParseVersion ==
    ppc = "returned" =>
        /\ parsed \in {None} \cup {Some(SubSeq(text, i, j)) :
                                      i \in 1..(Len(text) + 1), j \in 0..Len(text)}
        /\ IF Find(text, VersionKey) = 0
           THEN parsed = None
           ELSE LET seg == KeySegment(text)
                    q1  == Find(seg, Quote)
                    r   == SubSeq(seg, q1 + 1, Len(seg))
                IN  parsed = IF q1 = 0 THEN None
                             ELSE IF Find(r, Quote) = 0 THEN Some(r)
                             ELSE BetweenQuotes(seg)
        /\ text = DocExample => parsed = Some(<<"6", ".", "0">>)

C8_Witness ==
    /\ ppc = "returned"
    /\ text = VersionKey \o Quote \o <<"6">> \o <<" ">>
    /\ parsed = Some(<<"6">>)

\* C9 as stated: when the extraction exits with status zero, the archive file
\* is gone when unpack_ffmpeg returns.
C9_Original ==
    (UnpackReturned /\ status = "zero") => ~archiveExists

\* C9 amended: when the extraction exits with status zero, the archive file is
\* gone at return exactly when unpack_ffmpeg returns success; every failure
\* after the extraction (BinaryNotFound, a failed rename, a failed removal of
\* the staging directory or of the archive) leaves the archive in place.
C9_ArchiveRemoval ==
    (UnpackReturned /\ status = "zero") =>
        /\ archiveExists <=> unpackResult # "Ok"
        /\ unpackResult \in {"BinaryNotFound", "IOFailure", "Ok"}
        /\ removals.archive = "removed" <=> unpackResult = "Ok"

C9_Witness ==
    /\ pc = "u_ret" /\ status = "zero" /\ unpackResult = "BinaryNotFound"
    /\ archiveExists /\ removals = NoRemovals

\* C10 as stated: in every run, the staging directory holds no entry of an
\* earlier run when the extraction starts, and every binary moved into the
\* target directory was extracted from the archive of the run that moved it.
C10_Original ==
    /\ pc = "u_extract" => temp = EmptyDir
    /\ \A n \in moved : bins[n] = runs

\* C10 amended: the staging directory is created when missing and never
\* emptied before the extraction: when the extraction starts it holds exactly
\* the entries it held when the run was called. A run called with no staging
\* directory extracts into an empty one and moves only binaries of its own
\* archive; a run called with a staging directory left by a failed run may
\* move a binary that an earlier run extracted.
C10_StagingKept ==
    /\ pc \in {"u_dispatch", "u_readdir", "u_extract"} =>
          tempExists /\ temp = atCall.temp
    /\ UnpackReturned /\ status # "none" => atExtract = atCall.temp
    /\ ~atCall.tempExists =>
          /\ atCall.temp = EmptyDir
          /\ \A n \in moved : bins[n] = runs
    /\ \A n \in moved : bins[n] = runs \/ (bins[n] = atCall.temp[n] /\ bins[n] # 0)

C10_Witness ==
    /\ pc = "u_ret" /\ unpackResult = "Ok" /\ runs = 2
    /\ bins[ffmpeg_bin] = 2 /\ bins[ffprobe_bin] = 1
    /\ ffprobe_bin \notin archiveContents

====
